---------------------------- MODULE Spec2Model ----------------------------
(***************************************************************************)
(* A model of pypipr's phase-fitting subsystem: BaseFit and its four       *)
(* phase classes (FitBaseline, FitConstrict, FitSustain, FitRedilation),   *)
(* PupilFit, and the PupilBase / PupilMeasurement data object they read.   *)
(*                                                                         *)
(* Floats are modelled on a small integer grid extended with -inf, +inf    *)
(* and NaN.  Python objects are records; an attribute that the code has    *)
(* not assigned yet is modelled by a flag (has_params, has_stim).  Every   *)
(* public call is one action; it records the exception it ended with       *)
(* (lastExc), the warnings it emitted (warns) and the internal calls it     *)
(* made (calls).  scipy's curve_fit is an external library: its outcome is  *)
(* drawn from OptOutcomes wherever the code reaches the call.               *)
(***************************************************************************)
EXTENDS Integers, Sequences, FiniteSets, TLC

VARIABLES
    focus,      \* which object the client program exercises
    ph,         \* the PhaseModel (BaseFit subclass instance)
    m,          \* the PupilMeasurement
    cf,         \* the PupilFit under construction / constructed
    argTime,    \* time array handed to the last call that takes arrays
    argSize,    \* size array handed to the last call that takes arrays
    lastOp,     \* name of the last public call
    lastExc,    \* exception the last call ended with ("none": returned)
    warns,      \* warnings emitted during the last call, in order
    calls,      \* internal calls made by the last call, in order
    lastOpt,    \* how curve_fit ended in the last call ("notcalled" if not reached)
    ret,        \* value the last call returned (<<>> when it returns nothing)
    ph2,        \* a second phase object, built from the same arguments as ph
    argOther,   \* the other arguments of the last call (query times, method name)
    optArgs,    \* what the last call handed to curve_fit (NoOptArgs if not reached)
    series,     \* the PupilSeries
    kwargs      \* the caller's dict of fit options, as the last call left it

vars == <<focus, ph, m, cf, argTime, argSize, lastOp, lastExc, warns, calls,
          lastOpt, ret, ph2, argOther, optArgs, series, kwargs>>

----------------------------------------------------------------------------
(* Bounds of the model *)

\* number of points of the time grid 0 .. MaxT-1 (also the longest array)
MaxT == 3

----------------------------------------------------------------------------
(* Float values: np.nan, -np.inf, np.inf, Python's None *)

NaN == 9999

PosInf == 1000

NegInf == -1000

NoneVal == -9999

\* a finite float that is not on the integer grid (e.g. exp(1))
Irr == 500

IsNaN(x) == x = NaN

IsFinite(x) == x # NaN /\ x # PosInf /\ x # NegInf

\* IEEE comparison: every comparison with NaN is False
Ge(x, y) == ~IsNaN(x) /\ ~IsNaN(y) /\ x >= y

Le(x, y) == ~IsNaN(x) /\ ~IsNaN(y) /\ x <= y

Gt(x, y) == ~IsNaN(x) /\ ~IsNaN(y) /\ x > y

Neg(x) ==
    IF IsNaN(x) THEN NaN
    ELSE IF x = Irr THEN Irr
    ELSE 0 - x

Add(x, y) ==
    IF IsNaN(x) \/ IsNaN(y) THEN NaN
    ELSE IF x = PosInf THEN (IF y = NegInf THEN NaN ELSE PosInf)
    ELSE IF x = NegInf THEN (IF y = PosInf THEN NaN ELSE NegInf)
    ELSE IF y = PosInf \/ y = NegInf THEN y
    ELSE IF x = Irr \/ y = Irr THEN Irr
    ELSE x + y

Sub(x, y) == Add(x, Neg(y))

Sign(x) == IF x > 0 THEN 1 ELSE IF x < 0 THEN -1 ELSE 0

Mul(x, y) ==
    IF IsNaN(x) \/ IsNaN(y) THEN NaN
    ELSE IF ~IsFinite(x) \/ ~IsFinite(y)
         THEN (IF x = 0 \/ y = 0 THEN NaN
               ELSE IF Sign(x) * Sign(y) > 0 THEN PosInf ELSE NegInf)
    ELSE IF x = 0 \/ y = 0 THEN 0
    ELSE IF x = Irr \/ y = Irr THEN Irr
    ELSE x * y

\* np.exp on the grid: exact at -inf, 0, +inf; off the grid elsewhere
Exp(z) ==
    IF IsNaN(z) THEN NaN
    ELSE IF z = NegInf THEN 0
    ELSE IF z = PosInf THEN PosInf
    ELSE IF z = 0 THEN 1
    ELSE Irr

----------------------------------------------------------------------------
(* Input domains *)

TimeVals == 0 .. (MaxT - 1)

SizeVals == {1, 2, NaN}

\* strictly increasing time arrays over the grid
TimeArrays ==
    {t \in UNION {[1..n -> TimeVals] : n \in 0..MaxT} :
        \A i \in 1..Len(t) : \A j \in 1..Len(t) : i < j => t[i] < t[j]}

SizeArrays == UNION {[1..n -> SizeVals] : n \in 0..MaxT}

Kinds == {"baseline", "constrict", "sustain", "redilation"}

\* window bounds a caller may pass to a phase constructor
WindowVals == {NoneVal, NegInf, PosInf} \cup TimeVals

\* query times for predict
QueryTimes == {NegInf, PosInf, NaN} \cup TimeVals

\* the query array handed to a phase's predict
QueryArray == <<NegInf, 0, 1, 2, PosInf, NaN>>

Scenarios == {"phase", "meas", "fit", "pair"}

----------------------------------------------------------------------------
(* Objects *)

NoPhase ==
    [exists |-> FALSE, kind |-> "none", start_time |-> NoneVal,
     end_time |-> NoneVal, time_data |-> <<>>, size |-> <<>>,
     time_offset |-> NoneVal, has_params |-> FALSE, params |-> <<>>]

NoMeas ==
    [exists |-> FALSE, time_data |-> <<>>, size |-> <<>>, f64 |-> FALSE,
     has_stim |-> FALSE, stim |-> <<NoneVal, NoneVal>>,
     has_blinks |-> FALSE, blink_list |-> <<>>]

NoSeries ==
    [exists |-> FALSE, time_data |-> <<>>, size |-> <<>>, stimuli |-> <<>>]


NoFit ==
    [stage |-> "none", stimulus |-> <<NoneVal, NoneVal>>, stim_shared |-> FALSE,
     pupil_measurement |-> NoMeas, time_data |-> <<>>, time_shared |-> FALSE,
     baseline_fit |-> NoPhase, constrict_fit |-> NoPhase,
     sustain_fit |-> NoPhase, redilation_fit |-> NoPhase]

----------------------------------------------------------------------------
(* BaseFit and the phase classes *)

\* FitBaseline.__init__ warns unless the window is this long
BaselineDuration == 10

\* _fit_with_p0 skips the optimizer below this many points
MinFitPoints == 3

ParamNames(kind) ==
    CASE kind = "baseline" -> <<"c">>
      [] kind = "constrict" -> <<"m", "t", "c">>
      [] kind = "sustain" -> <<"m", "c">>
      [] kind = "redilation" -> <<"s", "k", "p">>

NParams(kind) == Len(ParamNames(kind))

\* [np.nan] * len(self.get_param_names())
NaNVec(kind) == [i \in 1..NParams(kind) |-> NaN]

AllNaN(v) == \A i \in 1..Len(v) : IsNaN(v[i])

\* mutation of InWindow: the end of the window excluded
InWindowEndExclusive(t, start_time, end_time) ==
    Ge(t, start_time) /\ Gt(end_time, t)

\* mask = (time_data >= start_time) & (time_data <= end_time)
InWindow(t, start_time, end_time) ==
    Ge(t, start_time) /\ Le(t, end_time)

\* a[mask]: the elements of vals whose time lies in the window, in order
RECURSIVE Masked(_, _, _, _)
Masked(vals, time_data, start_time, end_time) ==
    IF time_data = <<>> \/ vals = <<>> THEN <<>>
    ELSE (IF InWindow(Head(time_data), start_time, end_time)
          THEN <<Head(vals)>> ELSE <<>>)
         \o Masked(Tail(vals), Tail(time_data), start_time, end_time)

\* FitBaseline.__init__ / BaseFit.__init__: the constructor's outcome
BaseFitInit(kind, time_data, size, start_time, end_time) ==
    LET hasNone == start_time = NoneVal \/ end_time = NoneVal
        w == IF kind = "baseline" /\ ~hasNone
                /\ Sub(end_time, start_time) # BaselineDuration
             THEN <<"baseline_not_10s">> ELSE <<>>
    IN  IF kind = "baseline" /\ hasNone
        THEN [exc |-> "TypeError", warns |-> <<>>, ph |-> NoPhase]
        ELSE IF hasNone
        THEN [exc |-> "NotImplementedError", warns |-> w, ph |-> NoPhase]
        ELSE IF Len(time_data) # Len(size)
        THEN [exc |-> "ValueError", warns |-> w, ph |-> NoPhase]
        ELSE [exc |-> "none", warns |-> w,
              ph |-> [exists |-> TRUE, kind |-> kind,
                      start_time |-> start_time, end_time |-> end_time,
                      time_data |-> Masked(time_data, time_data, start_time, end_time),
                      size |-> Masked(size, time_data, start_time, end_time),
                      time_offset |-> start_time,
                      has_params |-> FALSE, params |-> <<>>]]

\* the phase formulas ( _model_function ), at one time value
ModelFunction(kind, x, p) ==
    CASE kind = "baseline" -> p[1]
      [] kind = "constrict" -> Add(Mul(p[1], Add(x, p[2])), p[3])
      [] kind = "sustain" -> Add(Mul(p[1], x), p[2])
      [] kind = "redilation" ->
            Add(Mul(Neg(p[1]), Exp(Mul(Neg(p[2]), x))), p[3])

\* what get_params() ends with: self._params is read without a default
GetParamsExc(p) == IF p.has_params THEN "none" ELSE "AttributeError"

\* what predict() ends with: get_params(), then the call of _model_function
PredictExc(p) ==
    IF GetParamsExc(p) # "none" THEN GetParamsExc(p)
    ELSE IF Len(p.params) # NParams(p.kind) THEN "TypeError"
    ELSE "none"

\* predict() at one query time (when PredictExc is "none")
PredictOne(p, t) == ModelFunction(p.kind, Add(t, p.time_offset), p.params)

\* BaseFit.get_size(): self.predict(self.get_time())
GetSize(p) == [i \in 1..Len(p.time_data) |-> PredictOne(p, p.time_data[i])]

\* parameter vectors the optimizer may return
PoptVecs(kind) == {[i \in 1..NParams(kind) |-> v] : v \in {1, 2}}

\* a parameter vector with a negative second component (s = 1, k = -1, p = 3
\* for the redilation formula)
SignedVec(kind) == [i \in 1..NParams(kind) |-> IF i = 2 THEN -1 ELSE i]

\* the finite parameter vectors of the model
FiniteVecs(kind) == PoptVecs(kind) \cup {SignedVec(kind)}

\* no call of curve_fit
NoOptArgs == [xdata |-> <<>>, ydata |-> <<>>, nan_policy |-> "none"]

\* no dict of fit options (kwargs=None)
NoKwargs == [passed |-> FALSE, items |-> {}]

\* curve_fit(self._model_function, time_offset, self.get_size(), **kwargs):
\* the arguments of the call, kwargs["nan_policy"] defaulting to "omit"
CurveFitArgs(p) ==
    [xdata |-> [i \in 1..Len(p.time_data) |-> Add(p.time_data[i], p.time_offset)],
     ydata |-> GetSize(p),
     nan_policy |-> "omit"]

\* the vectors that reproduce every non-NaN target exactly (zero residual)
ExactFits(kind, xdata, ydata) ==
    {v \in FiniteVecs(kind) :
        \A i \in 1..Len(ydata) :
            IsNaN(ydata[i]) \/ ModelFunction(kind, xdata[i], v) = ydata[i]}

\* how scipy.optimize.curve_fit may end: with a least-squares minimiser (a
\* vector reproducing the targets when there is one) or with an exception
OptOutcomes(kind, xdata, ydata) ==
    {[status |-> "ok", popt |-> v] :
        v \in IF ExactFits(kind, xdata, ydata) # {}
               THEN ExactFits(kind, xdata, ydata) ELSE FiniteVecs(kind)}
    \cup {[status |-> e, popt |-> <<>>] :
             e \in {"RuntimeError", "ValueError", "TypeError"}}

\* BaseFit._fit_with_p0: the set of possible results of one call
FitWithP0Results(p) ==
    IF PredictExc(p) # "none"
    THEN {[exc |-> PredictExc(p), warns |-> <<>>, ph |-> p, opt |-> "notcalled",
           args |-> NoOptArgs]}
    ELSE IF Len(GetSize(p)) < MinFitPoints
    THEN {[exc |-> "none", warns |-> <<"not_enough_points">>,
           ph |-> [p EXCEPT !.has_params = TRUE, !.params = NaNVec(p.kind)],
           opt |-> "notcalled", args |-> NoOptArgs]}
    ELSE LET a == CurveFitArgs(p)
         IN  {IF o.status = "ok"
              THEN [exc |-> "none", warns |-> <<>>,
                    ph |-> [p EXCEPT !.has_params = TRUE, !.params = o.popt],
                    opt |-> "ok", args |-> a]
              ELSE IF o.status = "RuntimeError"
              THEN [exc |-> "none", warns |-> <<"fit_failed">>,
                    ph |-> [p EXCEPT !.has_params = TRUE, !.params = NaNVec(p.kind)],
                    opt |-> o.status, args |-> a]
              ELSE [exc |-> o.status, warns |-> <<>>, ph |-> p, opt |-> o.status,
                    args |-> a]
              : o \in OptOutcomes(p.kind, a.xdata, a.ydata)}

\* kwargs[key] = value
SetItem(items, key, value) == {x \in items : x[1] # key} \cup {<<key, value>>}

\* key in kwargs
HasKey(items, key) == \E x \in items : x[1] = key

\* the dicts of fit options a caller hands to fit(): none, an empty one, one
\* that sets nan_policy
KwargsArgs ==
    {NoKwargs, [passed |-> TRUE, items |-> {}],
     [passed |-> TRUE, items |-> {<<"nan_policy", "raise">>}]}

\* the initial guesses a caller hands to fit(): None or the default tuple
GuessArgs == {"none", "default"}

\* BaseFit._fit_with_p0: the caller's dict after the call.  The two early
\* exits (get_size() raising, fewer than three points) come before the dict
\* is touched; after them p0 and the nan_policy default are written into the
\* dict that was passed in
KwargsAfter(p, guess, kw) ==
    IF PredictExc(p) # "none" \/ Len(GetSize(p)) < MinFitPoints \/ ~kw.passed
    THEN kw
    ELSE LET i1 == IF guess # "none" THEN SetItem(kw.items, "p0", guess)
                   ELSE kw.items
             i2 == IF HasKey(i1, "nan_policy") THEN i1
                   ELSE SetItem(i1, "nan_policy", "omit")
         IN  [kw EXCEPT !.items = i2]

\* the nan_policy curve_fit receives
NanPolicy(kw) ==
    IF HasKey(kw.items, "nan_policy")
    THEN (CHOOSE x \in kw.items : x[1] = "nan_policy")[2]
    ELSE "omit"

\* how scipy.optimize.minimize(optimize_time_func, x0, bounds=bounds) ends
\* in optimize_phase_boundary_and_params.  x0 has two entries and bounds
\* has 2 + n_param_bounds: with n_param_bounds > 0 the lengths disagree and
\* the call raises (ValueError from the library's check, or TypeError from
\* the objective if that is evaluated first); otherwise the first evaluation
\* calls optimize_time_func(x) with one argument where two are required,
\* a TypeError that minimize does not catch
OptimizeOutcomes(p, n_param_bounds) ==
    IF n_param_bounds > 0 THEN {"ValueError", "TypeError"} ELSE {"TypeError"}

\* the phase classes' fit(): _fit_with_p0, and FitConstrict's NaN overwrite
FitResults(p) ==
    IF p.kind = "constrict"
    THEN {IF r.exc = "none"
          THEN [r EXCEPT !.warns = Append(r.warns, "constrict_issue"),
                         !.ph = [r.ph EXCEPT !.params = NaNVec(p.kind)]]
          ELSE r
          : r \in FitWithP0Results(p)}
    ELSE FitWithP0Results(p)

\* np.abs on the grid
Abs(x) ==
    IF IsNaN(x) THEN NaN
    ELSE IF x = PosInf \/ x = NegInf THEN PosInf
    ELSE IF x = Irr THEN Irr
    ELSE IF x < 0 THEN 0 - x ELSE x

\* the entries of a sequence that are not NaN, in order
RECURSIVE DropNaN(_)
DropNaN(v) ==
    IF v = <<>> THEN <<>>
    ELSE (IF IsNaN(Head(v)) THEN <<>> ELSE <<Head(v)>>) \o DropNaN(Tail(v))

\* float sum of a sequence
RECURSIVE SumSeq(_)
SumSeq(v) == IF v = <<>> THEN 0 ELSE Add(Head(v), SumSeq(Tail(v)))

\* np.nanmean: the mean of the non-NaN entries as <<sum, count>>, NaN when
\* no entry is left
NanMean(v) ==
    IF DropNaN(v) = <<>> THEN <<NaN>>
    ELSE <<SumSeq(DropNaN(v)), Len(DropNaN(v))>>

\* method names a caller may pass to goodness_of_fit
Methods == {"MAE", "RMSE"}

\* BaseFit.goodness_of_fit
GoodnessOfFit(p, method) ==
    IF method \notin {"MAE"} THEN [exc |-> "ValueError", val |-> <<>>]
    ELSE IF PredictExc(p) # "none" THEN [exc |-> PredictExc(p), val |-> <<>>]
    ELSE [exc |-> "none",
          val |-> NanMean([i \in 1..Len(p.size) |->
                             Abs(Sub(p.size[i], PredictOne(p, p.time_data[i])))])]

----------------------------------------------------------------------------
(* PupilBase / PupilMeasurement *)

\* mutation of SetTimeAndSize: the arrays stored before the lengths are compared
SetTimeAndSizeStoreFirst(mm, time_data, size, f64) ==
    [exc |-> IF Len(time_data) # Len(size) THEN "ValueError" ELSE "none",
     m |-> [mm EXCEPT !.exists = TRUE, !.time_data = time_data,
                      !.size = size, !.f64 = f64]]

\* PupilBase.set_time_and_size (f64: the time array's dtype is float64)
SetTimeAndSize(mm, time_data, size, f64) ==
    IF Len(time_data) # Len(size)
    THEN [exc |-> "ValueError", m |-> mm]
    ELSE [exc |-> "none",
          m |-> [mm EXCEPT !.exists = TRUE, !.time_data = time_data,
                           !.size = size, !.f64 = f64]]

\* PupilMeasurement.__init__
PupilMeasurementInit(time_data, size, f64) ==
    IF Len(size) # Len(time_data)
    THEN [exc |-> "ValueError", m |-> NoMeas]
    ELSE SetTimeAndSize(NoMeas, time_data, size, f64)

\* PupilMeasurement.set_light_stimulus: LightStimulus(start, end) binds the
\* second positional argument to `duration`, so end_time = start + end
MeasStimulus(start, end) == <<start, Add(start, end)>>

\* PupilMeasurement.set_light_stimulus(start, end)
SetLightStimulus(mm, start, end) ==
    [mm EXCEPT !.has_stim = TRUE, !.stim = MeasStimulus(start, end)]

\* the warning get_light_stimulus() emits when no stimulus is set
StimulusWarning(mm) == IF mm.has_stim THEN <<>> ELSE <<"stimulus_not_set">>

\* LightStimulus.set_time_offset: both ends shifted, in place
ShiftStimulus(st, offset) == <<Add(st[1], offset), Add(st[2], offset)>>

\* PupilMeasurement.set_time_offset
SetTimeOffset(mm, offset) ==
    LET r == SetTimeAndSize(mm,
                 [i \in 1..Len(mm.time_data) |-> Add(mm.time_data[i], offset)],
                 mm.size, mm.f64)
    IN  [exc |-> r.exc,
         warns |-> IF r.exc = "none" THEN StimulusWarning(mm) ELSE <<>>,
         m |-> IF r.exc = "none" /\ mm.has_stim
               THEN [r.m EXCEPT !.stim = ShiftStimulus(mm.stim, offset)]
               ELSE r.m]

\* a[mask]: the entries of vals at the positions where keep is TRUE, in order
RECURSIVE Compress(_, _)
Compress(vals, keep) ==
    IF vals = <<>> \/ keep = <<>> THEN <<>>
    ELSE (IF Head(keep) THEN <<Head(vals)>> ELSE <<>>)
         \o Compress(Tail(vals), Tail(keep))

\* mutation of MeasurementDropNan: only the size array is masked and stored
MeasurementDropNanSizeOnly(mm) ==
    LET keep == [i \in 1..Len(mm.size) |-> ~IsNaN(mm.size[i])]
    IN  [exc |-> "none", warns |-> <<>>,
         m |-> [mm EXCEPT !.size = Compress(mm.size, keep)]]

\* PupilMeasurement.drop_nan
MeasurementDropNan(mm) ==
    LET keep == [i \in 1..Len(mm.size) |-> ~IsNaN(mm.size[i])]
        r == SetTimeAndSize(mm, Compress(mm.time_data, keep),
                            Compress(mm.size, keep), mm.f64)
    IN  [exc |-> r.exc, warns |-> <<>>, m |-> r.m]

\* mutation of TrimTime: the end of the interval excluded
TrimTimeEndExclusive(mm, start, end, drop) ==
    LET new_size == [i \in 1..Len(mm.size) |->
                        IF i <= Len(mm.time_data)
                           /\ InWindowEndExclusive(mm.time_data[i], start, end)
                        THEN mm.size[i] ELSE NaN]
        r == SetTimeAndSize(mm, mm.time_data, new_size, mm.f64)
    IN  IF r.exc = "none" /\ drop
        THEN MeasurementDropNan(r.m)
        ELSE [exc |-> r.exc, warns |-> <<>>, m |-> r.m]

\* PupilMeasurement.trim_time
TrimTime(mm, start, end, drop) ==
    LET new_size == [i \in 1..Len(mm.size) |->
                        IF i <= Len(mm.time_data)
                           /\ InWindow(mm.time_data[i], start, end)
                        THEN mm.size[i] ELSE NaN]
        r == SetTimeAndSize(mm, mm.time_data, new_size, mm.f64)
    IN  IF r.exc = "none" /\ drop
        THEN MeasurementDropNan(r.m)
        ELSE [exc |-> r.exc, warns |-> <<>>, m |-> r.m]

\* PupilMeasurement.trim_size
TrimSize(mm, min_size, max_size, drop) ==
    LET new_size == [i \in 1..Len(mm.size) |->
                        IF Ge(mm.size[i], min_size) /\ Le(mm.size[i], max_size)
                        THEN mm.size[i] ELSE NaN]
        r == SetTimeAndSize(mm, mm.time_data, new_size, mm.f64)
    IN  IF r.exc = "none" /\ drop
        THEN MeasurementDropNan(r.m)
        ELSE [exc |-> r.exc, warns |-> <<>>, m |-> r.m]

\* np.interp(x, xp, fp, left=nan, right=nan) at one query point: the value
\* at a knot, the straight line between two knots, NaN outside the knots
Interp(x, xp, fp) ==
    LET n == Len(xp)
    IN  IF x < xp[1] \/ x > xp[n] THEN NaN
        ELSE IF \E j \in 1..n : xp[j] = x
        THEN fp[CHOOSE j \in 1..n : xp[j] = x]
        ELSE LET j == CHOOSE k \in 1..(n - 1) : xp[k] < x /\ x < xp[k + 1]
             IN  IF IsNaN(fp[j]) \/ IsNaN(fp[j + 1]) THEN NaN
                 ELSE IF fp[j] = fp[j + 1] THEN fp[j]
                 ELSE Irr

\* PupilMeasurement.interpolate (np.interp rejects an empty xp)
Interpolate(mm, new_time) ==
    IF Len(mm.time_data) = 0 \/ Len(mm.time_data) # Len(mm.size)
    THEN [exc |-> "ValueError", warns |-> <<>>, m |-> mm]
    ELSE LET r == SetTimeAndSize(mm, new_time,
                      [i \in 1..Len(new_time) |->
                          Interp(new_time[i], mm.time_data, mm.size)], TRUE)
         IN  [exc |-> r.exc, warns |-> <<>>, m |-> r.m]

\* the filter functions a caller hands to rolling_filter
FilterFuncs == {"set_nan", "nanmax"}

\* func(window)
ApplyFunc(func, window) ==
    IF func = "set_nan" \/ DropNaN(window) = <<>> THEN NaN
    ELSE LET w == DropNaN(window)
         IN  w[CHOOSE i \in 1..Len(w) : \A j \in 1..Len(w) : w[j] <= w[i]]

\* FilterMixin.rolling_filter: window_size = int(time_window / mean(diff(time)));
\* with fewer than two samples the mean is NaN and int() raises
RollingFilter(mm, func, time_window) ==
    LET n == Len(mm.time_data)
    IN  IF n < 2 THEN [exc |-> "ValueError", warns |-> <<>>, m |-> mm]
        ELSE
        LET span == mm.time_data[n] - mm.time_data[1]
            raw == (time_window * (n - 1)) \div span
            even == raw % 2 = 0
            window_size == IF even THEN raw + 1 ELSE raw
            half_window == window_size \div 2
            lo(i) == IF i - half_window < 1 THEN 1 ELSE i - half_window
            hi(i) == IF i + half_window > Len(mm.size) THEN Len(mm.size)
                     ELSE i + half_window
            new_size == [i \in 1..Len(mm.size) |->
                            ApplyFunc(func, SubSeq(mm.size, lo(i), hi(i)))]
            r == SetTimeAndSize(mm, mm.time_data, new_size, mm.f64)
        IN  IF raw < 1 THEN [exc |-> "ValueError", warns |-> <<>>, m |-> mm]
            ELSE [exc |-> r.exc,
                  warns |-> IF even THEN <<"window_even">> ELSE <<>>,
                  m |-> r.m]

\* the blink lists a caller hands to set_blinks
BlinkLists == {<<>>, <<<<0, 1>>>>, <<<<0, 0>>, <<2, PosInf>>>>}

\* PupilMeasurement.set_blinks
SetBlinks(mm, blink_list) ==
    [mm EXCEPT !.has_blinks = TRUE, !.blink_list = blink_list]

\* BlinkMixin.remove_blinks: the stored sizes inside a blink become NaN
RemoveBlinks(mm) ==
    IF ~mm.has_blinks THEN [exc |-> "ValueError", warns |-> <<>>, m |-> mm]
    ELSE LET hit(i) == \E b \in 1..Len(mm.blink_list) :
                          InWindow(mm.time_data[i], mm.blink_list[b][1],
                                   mm.blink_list[b][2])
             marked == [mm EXCEPT !.size =
                          [i \in 1..Len(mm.size) |->
                              IF i <= Len(mm.time_data) /\ hit(i)
                              THEN NaN ELSE mm.size[i]]]
             r == SetTimeAndSize(marked, marked.time_data, marked.size, mm.f64)
         IN  [exc |-> r.exc, warns |-> <<>>, m |-> r.m]


\* min() / max() of a non-empty sequence of finite values
MinOf(v) == v[CHOOSE i \in 1..Len(v) : \A j \in 1..Len(v) : v[i] <= v[j]]

MaxOf(v) == v[CHOOSE i \in 1..Len(v) : \A j \in 1..Len(v) : v[j] <= v[i]]

\* np.nanargmin of a non-empty sequence without NaN: the first minimum
ArgMin(v) ==
    CHOOSE i \in 1..Len(v) :
        /\ \A j \in 1..Len(v) : v[i] <= v[j]
        /\ \A j \in 1..(i - 1) : v[j] > v[i]

\* mutation of GetAverageSize: np.mean in place of np.nanmean
GetAverageSizePlainMean(mm, start_time, end_time) ==
    IF Len(mm.time_data) = 0
    THEN [exc |-> "ValueError", warns |-> <<>>, val |-> <<>>]
    ELSE LET inside == Masked(mm.size, mm.time_data, start_time, end_time)
         IN  IF inside = <<>>
             THEN [exc |-> "ValueError", warns |-> <<>>, val |-> <<>>]
             ELSE [exc |-> "none", warns |-> <<>>,
                   val |-> IF DropNaN(inside) # inside THEN <<NaN>>
                           ELSE <<SumSeq(inside), Len(inside)>>]

\* PupilMetricsMixin.get_average_size, with a measurement as self; min() of
\* an empty time array raises ValueError, np.nanmean of an all-NaN slice
\* warns and returns NaN
GetAverageSize(mm, start_time, end_time) ==
    IF Len(mm.time_data) = 0
    THEN [exc |-> "ValueError", warns |-> <<>>, val |-> <<>>]
    ELSE LET w1 == IF Gt(MinOf(mm.time_data), start_time)
                   THEN <<"start_before_first">> ELSE <<>>
             w2 == IF Gt(end_time, MaxOf(mm.time_data))
                   THEN <<"end_after_last">> ELSE <<>>
             inside == Masked(mm.size, mm.time_data, start_time, end_time)
         IN  IF Masked(mm.time_data, mm.time_data, start_time, end_time) = <<>>
             THEN [exc |-> "ValueError", warns |-> w1 \o w2, val |-> <<>>]
             ELSE [exc |-> "none",
                   warns |-> w1 \o w2 \o (IF DropNaN(inside) = <<>>
                                          THEN <<"mean_of_empty_slice">>
                                          ELSE <<>>),
                   val |-> NanMean(inside)]

\* mutation of CalculateBaseline: the window anchored at the stimulus end
CalculateBaselineFromEnd(mm, duration) ==
    IF ~mm.has_stim
    THEN [exc |-> "ValueError", warns |-> StimulusWarning(mm), val |-> <<>>]
    ELSE GetAverageSize(mm, Sub(mm.stim[2], duration), mm.stim[2])

\* PupilMetricsMixin.calculate_baseline
CalculateBaseline(mm, duration) ==
    IF ~mm.has_stim
    THEN [exc |-> "ValueError", warns |-> StimulusWarning(mm), val |-> <<>>]
    ELSE GetAverageSize(mm, Sub(mm.stim[1], duration), mm.stim[1])

\* mutation of PeakConstriction: the receiver itself is trimmed
PeakConstrictionInPlace(mm) ==
    IF ~mm.has_stim
    THEN [exc |-> "ValueError",
          warns |-> <<"assumes_relative">> \o StimulusWarning(mm),
          val |-> <<>>, m |-> mm]
    ELSE LET c == TrimTime(mm, mm.stim[1], mm.stim[2], TRUE).m
         IN  IF c.size = <<>>
             THEN [exc |-> "ValueError", warns |-> <<"assumes_relative">>,
                   val |-> <<>>, m |-> c]
             ELSE [exc |-> "none", warns |-> <<"assumes_relative">>,
                   val |-> <<MinOf(c.size)>>, m |-> c]

\* PupilMetricsMixin.peak_constriction: a deep copy (self = self.copy()) is
\* trimmed to the stimulus interval; np.nanmin of an empty array raises
\* ValueError.  m is the receiver as the call leaves it.
PeakConstriction(mm) ==
    IF ~mm.has_stim
    THEN [exc |-> "ValueError",
          warns |-> <<"assumes_relative">> \o StimulusWarning(mm),
          val |-> <<>>, m |-> mm]
    ELSE LET c == TrimTime(mm, mm.stim[1], mm.stim[2], TRUE).m
         IN  IF c.size = <<>>
             THEN [exc |-> "ValueError", warns |-> <<"assumes_relative">>,
                   val |-> <<>>, m |-> mm]
             ELSE [exc |-> "none", warns |-> <<"assumes_relative">>,
                   val |-> <<MinOf(c.size)>>, m |-> mm]

\* PupilMetricsMixin.time_to_peak, on a deep copy as well
TimeToPeak(mm) ==
    IF ~mm.has_stim
    THEN [exc |-> "ValueError", warns |-> StimulusWarning(mm), val |-> <<>>,
          m |-> mm]
    ELSE LET c == TrimTime(mm, mm.stim[1], mm.stim[2], TRUE).m
         IN  IF c.size = <<>>
             THEN [exc |-> "ValueError", warns |-> <<>>, val |-> <<>>, m |-> mm]
             ELSE [exc |-> "none", warns |-> <<"pupil_escape">>,
                   val |-> <<Sub(c.time_data[ArgMin(c.size)], mm.stim[1])>>,
                   m |-> mm]

\* PupilSeries.__init__: set_time_and_size, then one LightStimulus per
\* (start, end) tuple, built with the keywords start_time and end_time
PupilSeriesInit(time_data, size_data, stimuli_list) ==
    IF Len(size_data) # Len(time_data)
    THEN [exc |-> "ValueError", series |-> NoSeries]
    ELSE [exc |-> "none",
          series |-> [exists |-> TRUE, time_data |-> time_data,
                      size |-> size_data, stimuli |-> stimuli_list]]

\* one pass of the loop of PupilSeries.split: a measurement built from
\* copies of the arrays, trimmed, given the stimulus and shifted
SplitOne(sr, st, prepulse_duration, postpulse_duration) ==
    LET m0 == PupilMeasurementInit(sr.time_data, sr.size, TRUE).m
        m1 == TrimTime(m0, Sub(st[1], prepulse_duration),
                       Add(st[2], postpulse_duration), TRUE).m
        m2 == SetLightStimulus(m1, st[1], st[2])
    IN  SetTimeOffset(m2, Neg(st[2])).m

\* PupilSeries.split
Split(sr, prepulse_duration, postpulse_duration) ==
    [exc |-> "none",
     warns |-> (IF prepulse_duration < 0 THEN <<"prepulse_negative">> ELSE <<>>)
               \o (IF postpulse_duration < 0 THEN <<"postpulse_negative">>
                   ELSE <<>>),
     val |-> [k \in 1..Len(sr.stimuli) |->
                 SplitOne(sr, sr.stimuli[k], prepulse_duration,
                          postpulse_duration)],
     series |-> sr]

----------------------------------------------------------------------------
(* PupilFit *)

\* PupilFit._setup_fits: the four phase constructors, in order
SetupFits(c) ==
    LET a == c.stimulus[1]
        b == c.stimulus[2]
        sz == c.pupil_measurement.size
        rb == BaseFitInit("baseline", c.time_data, sz, NegInf, a)
        rc == BaseFitInit("constrict", c.time_data, sz, a, b)
        rs == BaseFitInit("sustain", c.time_data, sz, a, b)
        rr == BaseFitInit("redilation", c.time_data, sz, b, PosInf)
        excs == <<rb.exc, rc.exc, rs.exc, rr.exc>>
        bad == {i \in 1..4 : excs[i] # "none"}
        first == CHOOSE i \in bad : \A j \in bad : i <= j
    IN  [exc |-> IF bad = {} THEN "none" ELSE excs[first],
         warns |-> rb.warns,
         cf |-> [c EXCEPT !.baseline_fit = rb.ph,
                          !.constrict_fit = IF rb.exc = "none" THEN rc.ph ELSE NoPhase,
                          !.sustain_fit = IF rb.exc = "none" /\ rc.exc = "none"
                                          THEN rs.ph ELSE NoPhase,
                          !.redilation_fit = IF bad = {} THEN rr.ph ELSE NoPhase]]

\* one phase's fit() inside _fit_all: skipped once an exception is in flight
FitStep(run, field) ==
    IF run.exc # "none" THEN {run}
    ELSE {[exc |-> r.exc,
           warns |-> run.warns \o r.warns,
           calls |-> Append(run.calls, field),
           opt |-> r.opt,
           args |-> r.args,
           cf |-> [run.cf EXCEPT ![field] = r.ph]]
          : r \in FitResults(run.cf[field])}

\* _fit_all's overwrite of the sustained parameters, and its warning
SustainOverwrite(run) ==
    IF run.exc # "none" THEN run
    ELSE [run EXCEPT !.warns = Append(run.warns, "sustain_not_implemented"),
                     !.cf.sustain_fit.has_params = TRUE,
                     !.cf.sustain_fit.params = NaNVec("sustain")]

\* PupilFit._fit_all: baseline, constriction, sustained, redilation
FitAll(run) ==
    LET s1 == FitStep(run, "baseline_fit")
        s2 == UNION {FitStep(x, "constrict_fit") : x \in s1}
        s3 == {SustainOverwrite(y) :
                  y \in UNION {FitStep(x, "sustain_fit") : x \in s2}}
    IN  UNION {FitStep(x, "redilation_fit") : x \in s3}

\* PupilFit.__init__ after the stimulus check: alias the stimulus, deep-copy
\* the series, bind the time array (np.asarray returns the very same array
\* when its dtype is float64 already), build the four phases and fit them
PupilFitBuild(mm) ==
    LET c1 == [NoFit EXCEPT !.stage = "partial",
                            !.stimulus = mm.stim, !.stim_shared = TRUE,
                            !.pupil_measurement = mm,
                            !.time_data = mm.time_data,
                            !.time_shared = mm.f64]
        su == SetupFits(c1)
        run0 == [exc |-> su.exc, warns |-> su.warns,
                 calls |-> <<"get_light_stimulus", "_set_light_stimulus",
                             "copy", "_set_time", "_setup_fits">>,
                 opt |-> "notcalled", args |-> NoOptArgs, cf |-> su.cf]
    IN  {IF r.exc = "none" THEN [r EXCEPT !.cf.stage = "fitted"] ELSE r
         : r \in FitAll(run0)}

\* mutation of PupilFitInitResults: the series is copied before the stimulus
\* is looked at
PupilFitInitCopyFirst(mm) ==
    IF ~mm.has_stim
    THEN {[exc |-> "ValueError", warns |-> <<"stimulus_not_set">>,
           calls |-> <<"copy", "get_light_stimulus">>, opt |-> "notcalled",
           args |-> NoOptArgs,
           cf |-> [NoFit EXCEPT !.stage = "partial", !.pupil_measurement = mm]]}
    ELSE PupilFitBuild(mm)

\* PupilFit.__init__: the set of possible results of one constructor call
PupilFitInitResults(mm) ==
    IF ~mm.has_stim
    THEN {[exc |-> "ValueError", warns |-> <<"stimulus_not_set">>,
           calls |-> <<"get_light_stimulus">>, opt |-> "notcalled",
           args |-> NoOptArgs, cf |-> NoFit]}
    ELSE PupilFitBuild(mm)

\* half-open membership test of PupilFit.predict: (end > t) & (t >= start)
InPhase(p, t) == Gt(p.end_time, t) /\ Ge(t, p.start_time)

\* PupilFit.predict at one query time: the phases assign in the order
\* baseline, constriction, sustained, redilation; a later one overwrites
PupilFitPredict(c, t) ==
    LET order == <<c.baseline_fit, c.constrict_fit, c.sustain_fit, c.redilation_fit>>
        hit == {i \in 1..4 : InPhase(order[i], t)}
        bad == {i \in hit : PredictExc(order[i]) # "none"}
        firstBad == CHOOSE i \in bad : \A j \in bad : i <= j
        last == CHOOSE i \in hit : \A j \in hit : j <= i
    IN  IF bad # {} THEN [exc |-> PredictExc(order[firstBad]), val |-> NaN]
        ELSE IF hit = {} THEN [exc |-> "none", val |-> NaN]
        ELSE [exc |-> "none", val |-> PredictOne(order[last], t)]

\* the keys of get_all_params(), in the order the dict is built
PhaseKeys == <<"baseline", "constriction", "sustained", "redilation">>

\* the phase object behind a key of get_all_params()
PhaseOfKey(c, key) ==
    CASE key = "baseline" -> c.baseline_fit
      [] key = "constriction" -> c.constrict_fit
      [] key = "sustained" -> c.sustain_fit
      [] key = "redilation" -> c.redilation_fit

\* what PupilFit.get_all_params() ends with: the phases' get_params() are
\* called in key order
GetAllParamsExc(c) ==
    LET bad == {i \in 1..4 : GetParamsExc(PhaseOfKey(c, PhaseKeys[i])) # "none"}
    IN  IF bad = {} THEN "none" ELSE "AttributeError"

\* phase names and parameter names a caller may pass to get_param
PhaseNameArgs == {"baseline", "constriction", "sustained", "redilation", "latency"}

ParamNameArgs == {"c", "m", "t", "s", "k", "p", "x"}

\* PupilFit.get_param: named is what the ValueError's message lists as
\* available (the phases for an unknown phase, nothing for an unknown
\* parameter)
GetParam(c, phase_name, param_name) ==
    IF GetAllParamsExc(c) # "none"
    THEN [exc |-> GetAllParamsExc(c), val |-> NaN, named |-> <<>>]
    ELSE IF \A i \in 1..4 : PhaseKeys[i] # phase_name
    THEN [exc |-> "ValueError", val |-> NaN, named |-> PhaseKeys]
    ELSE LET q == PhaseOfKey(c, phase_name)
             names == ParamNames(q.kind)
             hit == {i \in 1..Len(names) : names[i] = param_name}
         IN  IF hit = {}
             THEN [exc |-> "ValueError", val |-> NaN, named |-> <<>>]
             ELSE [exc |-> "none", val |-> q.params[CHOOSE i \in hit : TRUE],
                   named |-> <<>>]

\* what PupilFit.get_size() ends with: predict over the object's time array
PupilFitGetSizeExc(c) ==
    LET bad == {i \in 1..Len(c.time_data) :
                   PupilFitPredict(c, c.time_data[i]).exc # "none"}
    IN  IF bad = {} THEN "none"
        ELSE PupilFitPredict(c, c.time_data[CHOOSE i \in bad : \A j \in bad : i <= j]).exc

\* PupilMeasurement.set_time_offset on a PupilFit: set_time_and_size stores
\* a shifted copy of the time array, and the stimulus object is shifted in
\* place
PupilFitSetTimeOffset(c, offset) ==
    IF PupilFitGetSizeExc(c) # "none"
    THEN [exc |-> PupilFitGetSizeExc(c), cf |-> c]
    ELSE [exc |-> "none",
          cf |-> [c EXCEPT !.time_data = [i \in 1..Len(c.time_data) |->
                                             Add(c.time_data[i], offset)],
                           !.time_shared = FALSE,
                           !.stimulus = <<Add(c.stimulus[1], offset),
                                          Add(c.stimulus[2], offset)>>]]

\* the times of a PupilFit whose predicted size is not NaN, in order
RECURSIVE PredictedTimes(_, _)
PredictedTimes(c, times) ==
    IF times = <<>> THEN <<>>
    ELSE (IF IsNaN(PupilFitPredict(c, Head(times)).val) THEN <<>> ELSE <<Head(times)>>)
         \o PredictedTimes(c, Tail(times))

\* PupilMeasurement.drop_nan on a PupilFit: the mask is taken from get_size(),
\* the prediction
PupilFitDropNan(c) ==
    IF PupilFitGetSizeExc(c) # "none"
    THEN [exc |-> PupilFitGetSizeExc(c), cf |-> c]
    ELSE [exc |-> "none",
          cf |-> [c EXCEPT !.time_data = PredictedTimes(c, c.time_data),
                           !.time_shared = FALSE]]

\* measurement.set_time_offset(offset) on the series a PupilFit was built
\* from: the LightStimulus object the PupilFit aliases is shifted in place
SourceSetTimeOffset(c, mm, offset) ==
    LET r == SetTimeOffset(mm, offset)
    IN  IF r.exc = "none" /\ mm.has_stim /\ c.stim_shared
        THEN [c EXCEPT !.stimulus = r.m.stim]
        ELSE c

\* measurement.set_light_stimulus(start, end) on that series: the series
\* gets a new LightStimulus object, the PupilFit keeps the old one
SourceSetLightStimulus(c, mm, start, end) == [c EXCEPT !.stim_shared = FALSE]

----------------------------------------------------------------------------
(* The state machine *)

\* the stimulus intervals set_light_stimulus(a, b) leaves on a series
StimPairs == {MeasStimulus(a, b) : a \in TimeVals, b \in TimeVals}

\* the measurements a PupilFit may be built from
Measurements ==
    {[exists |-> TRUE, time_data |-> t, size |-> s, f64 |-> f,
      has_stim |-> st # <<NoneVal, NoneVal>>, stim |-> st,
      has_blinks |-> FALSE, blink_list |-> <<>>] :
        t \in TimeArrays, s \in SizeArrays, f \in BOOLEAN,
        st \in StimPairs \cup {<<NoneVal, NoneVal>>}}

Init ==
    /\ focus \in Scenarios
    /\ ph = NoPhase
    /\ cf = NoFit
    /\ m \in IF focus = "fit"
             THEN {x \in Measurements : Len(x.time_data) = Len(x.size)}
             ELSE {NoMeas}
    /\ argTime = <<>>
    /\ argSize = <<>>
    /\ lastOp = "init"
    /\ lastExc = "none"
    /\ warns = <<>>
    /\ calls = <<>>
    /\ lastOpt = "notcalled"
    /\ ret = <<>>
    /\ ph2 = NoPhase
    /\ argOther = <<>>
    /\ optArgs = NoOptArgs
    /\ series = NoSeries
    /\ kwargs = NoKwargs

\* FitBaseline / FitConstrict / FitSustain / FitRedilation (time, size, start, end)
BaseFitConstruct ==
    /\ focus = "phase"
    /\ lastOp = "init"
    /\ \E kind \in Kinds, t \in TimeArrays, s \in SizeArrays,
          st \in WindowVals \ {PosInf}, en \in WindowVals \ {NegInf} :
          LET r == BaseFitInit(kind, t, s, st, en)
          IN  /\ ph' = r.ph
              /\ argTime' = t
              /\ argSize' = s
              /\ lastExc' = r.exc
              /\ warns' = r.warns
    /\ lastOp' = "BaseFit"
    /\ calls' = <<>>
    /\ lastOpt' = "notcalled"
    /\ ret' = <<>>
    /\ argOther' = <<>>
    /\ optArgs' = NoOptArgs
    /\ UNCHANGED <<series, kwargs, focus, ph2, m, cf>>

\* phase._set_params(*values), as PupilFit._fit_all calls it
PhaseSetParams ==
    /\ focus \in {"phase", "tune"}
    /\ focus = "tune" => lastOp = "BaseFit"
    /\ ph.exists
    /\ \E v \in FiniteVecs(ph.kind) \cup {NaNVec(ph.kind)} :
          ph' = [ph EXCEPT !.has_params = TRUE, !.params = v]
    /\ lastOp' = "_set_params"
    /\ lastExc' = "none"
    /\ warns' = <<>>
    /\ calls' = <<>>
    /\ lastOpt' = "notcalled"
    /\ ret' = <<>>
    /\ argOther' = <<>>
    /\ optArgs' = NoOptArgs
    /\ UNCHANGED <<series, kwargs, focus, ph2, m, cf, argTime, argSize>>

\* phase.fit() with the default initial guess
PhaseFit ==
    /\ focus = "phase"
    /\ ph.exists
    /\ \E r \in FitResults(ph) :
          /\ ph' = r.ph
          /\ lastExc' = r.exc
          /\ warns' = r.warns
          /\ lastOpt' = r.opt
          /\ optArgs' = r.args
    /\ lastOp' = "fit"
    /\ calls' = <<>>
    /\ ret' = <<>>
    /\ argOther' = <<>>
    /\ UNCHANGED <<series, kwargs, focus, ph2, m, cf, argTime, argSize>>

\* phase.get_params()
PhaseGetParams ==
    /\ focus = "phase"
    /\ ph.exists
    /\ lastOp' = "get_params"
    /\ lastExc' = GetParamsExc(ph)
    /\ ret' = IF ph.has_params THEN ph.params ELSE <<>>
    /\ warns' = <<>>
    /\ calls' = <<>>
    /\ lastOpt' = "notcalled"
    /\ argOther' = <<>>
    /\ optArgs' = NoOptArgs
    /\ UNCHANGED <<series, kwargs, focus, ph2, ph, m, cf, argTime, argSize>>

\* phase.goodness_of_fit(method)
PhaseGoodnessOfFit ==
    /\ focus = "phase"
    /\ ph.exists
    /\ \E method \in Methods :
          /\ argOther' = <<method>>
          /\ ret' = GoodnessOfFit(ph, method).val
          /\ lastExc' = GoodnessOfFit(ph, method).exc
    /\ lastOp' = "goodness_of_fit"
    /\ warns' = <<>>
    /\ calls' = <<>>
    /\ lastOpt' = "notcalled"
    /\ optArgs' = NoOptArgs
    /\ UNCHANGED <<series, kwargs, focus, ph, ph2, m, cf, argTime, argSize>>

\* two phase objects of one class built from the same arguments
PairConstruct ==
    /\ focus = "pair"
    /\ lastOp = "init"
    /\ \E kind \in Kinds, t \in TimeArrays, s \in SizeArrays,
          st \in WindowVals \ {PosInf}, en \in WindowVals \ {NegInf} :
          LET r == BaseFitInit(kind, t, s, st, en)
          IN  /\ ph' = r.ph
              /\ ph2' = r.ph
              /\ argTime' = t
              /\ argSize' = s
              /\ lastExc' = r.exc
              /\ warns' = IF r.exc = "none" THEN r.warns \o r.warns ELSE r.warns
    /\ lastOp' = "BaseFit_twice"
    /\ calls' = <<>>
    /\ lastOpt' = "notcalled"
    /\ ret' = <<>>
    /\ argOther' = <<>>
    /\ optArgs' = NoOptArgs
    /\ UNCHANGED <<series, kwargs, focus, m, cf>>

\* first.fit(); second.fit() with the default initial guess: the second call
\* is not reached when the first raises, and curve_fit, a deterministic
\* routine, ends the same way when it is handed the same arguments
PairFit ==
    /\ focus = "pair"
    /\ lastOp = "BaseFit_twice"
    /\ ph.exists
    /\ \E r1 \in FitResults(ph) :
          IF r1.exc # "none"
          THEN /\ ph' = r1.ph
               /\ ph2' = ph2
               /\ lastExc' = r1.exc
               /\ warns' = r1.warns
               /\ lastOpt' = r1.opt
               /\ optArgs' = r1.args
          ELSE \E r2 \in FitResults(ph2) :
               /\ (r1.opt # "notcalled" /\ r2.args = r1.args) =>
                      (r2.opt = r1.opt /\ r2.ph.params = r1.ph.params)
               /\ ph' = r1.ph
               /\ ph2' = r2.ph
               /\ lastExc' = r2.exc
               /\ warns' = r1.warns \o r2.warns
               /\ lastOpt' = r2.opt
               /\ optArgs' = r2.args
    /\ lastOp' = "fit_twice"
    /\ calls' = <<>>
    /\ ret' = <<>>
    /\ argOther' = <<>>
    /\ UNCHANGED <<series, kwargs, focus, m, cf, argTime, argSize>>

\* phase.predict(np.array([-np.inf, 0., 1., 2., np.inf, np.nan])): predict is
\* elementwise, one call answers every query time
PhasePredict ==
    /\ focus = "phase"
    /\ ph.exists
    /\ argOther' = QueryArray
    /\ ret' = IF PredictExc(ph) = "none"
              THEN [i \in 1..Len(QueryArray) |-> PredictOne(ph, QueryArray[i])]
              ELSE <<>>
    /\ lastOp' = "predict"
    /\ lastExc' = PredictExc(ph)
    /\ warns' = <<>>
    /\ calls' = <<>>
    /\ lastOpt' = "notcalled"
    /\ optArgs' = NoOptArgs
    /\ UNCHANGED <<series, kwargs, focus, ph, ph2, m, cf, argTime, argSize>>

\* PupilMeasurement(time, size), with float64 arrays
PupilMeasurementConstruct ==
    /\ focus \in {"meas", "data"}
    /\ lastOp = "init"
    /\ \E t \in TimeArrays, s \in SizeArrays :
          LET r == PupilMeasurementInit(t, s, TRUE)
          IN  /\ m' = r.m
              /\ lastExc' = r.exc
              /\ argTime' = t
              /\ argSize' = s
    /\ lastOp' = "PupilMeasurement"
    /\ warns' = <<>>
    /\ calls' = <<>>
    /\ lastOpt' = "notcalled"
    /\ ret' = <<>>
    /\ argOther' = <<>>
    /\ optArgs' = NoOptArgs
    /\ UNCHANGED <<series, kwargs, focus, ph2, ph, cf>>

\* measurement.set_time_and_size(time, size) on a freshly constructed
\* measurement: the call reads nothing but the stored arrays and its
\* arguments, and the constructor reaches every pair of stored arrays
MeasSetTimeAndSize ==
    /\ focus \in {"meas", "data"}
    /\ m.exists
    /\ lastOp = "PupilMeasurement"
    /\ \E t \in TimeArrays, s \in SizeArrays :
          LET r == SetTimeAndSize(m, t, s, TRUE)
          IN  /\ m' = r.m
              /\ lastExc' = r.exc
              /\ argTime' = t
              /\ argSize' = s
    /\ lastOp' = "set_time_and_size"
    /\ warns' = <<>>
    /\ calls' = <<>>
    /\ lastOpt' = "notcalled"
    /\ ret' = <<>>
    /\ argOther' = <<>>
    /\ optArgs' = NoOptArgs
    /\ UNCHANGED <<series, kwargs, focus, ph2, ph, cf>>

\* PupilFit(measurement)
PupilFitConstruct ==
    /\ focus = "fit"
    /\ lastOp = "init"
    /\ \E r \in PupilFitInitResults(m) :
          /\ cf' = r.cf
          /\ lastExc' = r.exc
          /\ warns' = r.warns
          /\ calls' = r.calls
          /\ lastOpt' = r.opt
          /\ optArgs' = r.args
    /\ lastOp' = "PupilFit"
    /\ ret' = <<>>
    /\ argOther' = <<>>
    /\ UNCHANGED <<series, kwargs, focus, ph2, ph, m, argTime, argSize>>

\* the caller writes one element of the series' time array in place
\* ( measurement.get_time()[i] = v ) after the constructor call
MutateSourceTime ==
    /\ focus = "fit"
    /\ lastOp = "PupilFit"
    /\ \E i \in 1..Len(m.time_data), v \in TimeVals :
          /\ v # m.time_data[i]
          /\ m' = [m EXCEPT !.time_data[i] = v]
          /\ cf' = IF cf.time_shared
                   THEN [cf EXCEPT !.time_data[i] = v]
                   ELSE cf
    /\ lastOp' = "mutate_time"
    /\ lastExc' = "none"
    /\ warns' = <<>>
    /\ calls' = <<>>
    /\ lastOpt' = "notcalled"
    /\ ret' = <<>>
    /\ argOther' = <<>>
    /\ optArgs' = NoOptArgs
    /\ UNCHANGED <<series, kwargs, focus, ph2, ph, argTime, argSize>>

Next ==
    \/ BaseFitConstruct
    \/ PhaseSetParams
    \/ PhaseFit
    \/ PhaseGetParams
    \/ PhasePredict
    \/ PhaseGoodnessOfFit
    \/ PairConstruct
    \/ PairFit
    \/ PupilMeasurementConstruct
    \/ MeasSetTimeAndSize
    \/ PupilFitConstruct
    \/ MutateSourceTime

Spec == Init /\ [][Next]_vars

----------------------------------------------------------------------------
(* The data objects on their own: a measurement that is edited and measured *)

\* how the client program of the second specification uses the library
DataScenarios == {"data", "series", "tune"}

\* calls that build a measurement up before it is edited or measured
SetupOps == {"PupilMeasurement", "set_light_stimulus"}

\* time offsets a caller passes to set_time_offset
Offsets == {-1, 1}

\* size limits a caller passes to trim_size
SizeLimits == {NegInf, 1, 2, PosInf, NaN}

\* durations a caller passes to calculate_baseline
Durations == 0 .. MaxT

DataInit ==
    /\ focus \in DataScenarios
    /\ ph = NoPhase
    /\ cf = NoFit
    /\ m = NoMeas
    /\ argTime = <<>>
    /\ argSize = <<>>
    /\ lastOp = "init"
    /\ lastExc = "none"
    /\ warns = <<>>
    /\ calls = <<>>
    /\ lastOpt = "notcalled"
    /\ ret = <<>>
    /\ ph2 = NoPhase
    /\ argOther = <<>>
    /\ optArgs = NoOptArgs
    /\ series = NoSeries
    /\ kwargs = NoKwargs

\* what a call on the measurement leaves alone
MeasCallFrame ==
    /\ calls' = <<>>
    /\ lastOpt' = "notcalled"
    /\ optArgs' = NoOptArgs
    /\ argTime' = <<>>
    /\ argSize' = <<>>
    /\ UNCHANGED <<series, kwargs, focus, ph, ph2, cf>>

\* measurement.set_light_stimulus(start, end)
MeasSetLightStimulus ==
    /\ focus = "data"
    /\ m.exists
    /\ lastOp = "PupilMeasurement"
    /\ \E a \in TimeVals, b \in TimeVals :
          /\ m' = SetLightStimulus(m, a, b)
          /\ argOther' = <<a, b>>
    /\ lastOp' = "set_light_stimulus"
    /\ lastExc' = "none"
    /\ warns' = <<>>
    /\ ret' = <<>>
    /\ MeasCallFrame

\* measurement.set_blinks(blink_list)
MeasSetBlinks ==
    /\ focus = "data"
    /\ m.exists
    /\ lastOp = "PupilMeasurement"
    /\ \E bl \in BlinkLists :
          /\ m' = SetBlinks(m, bl)
          /\ argOther' = bl
    /\ lastOp' = "set_blinks"
    /\ lastExc' = "none"
    /\ warns' = <<>>
    /\ ret' = <<>>
    /\ MeasCallFrame

\* measurement.set_time_offset(offset)
MeasSetTimeOffset ==
    /\ focus = "data"
    /\ m.exists
    /\ lastOp \in SetupOps
    /\ \E offset \in Offsets :
          LET r == SetTimeOffset(m, offset)
          IN  /\ m' = r.m
              /\ lastExc' = r.exc
              /\ warns' = r.warns
              /\ argOther' = <<offset>>
    /\ lastOp' = "set_time_offset"
    /\ ret' = <<>>
    /\ MeasCallFrame

\* measurement.interpolate(new_time)
MeasInterpolate ==
    /\ focus = "data"
    /\ m.exists
    /\ lastOp = "PupilMeasurement"
    /\ \E new_time \in TimeArrays :
          LET r == Interpolate(m, new_time)
          IN  /\ m' = r.m
              /\ lastExc' = r.exc
              /\ warns' = r.warns
              /\ argOther' = new_time
    /\ lastOp' = "interpolate"
    /\ ret' = <<>>
    /\ MeasCallFrame

\* measurement.drop_nan(), after any other call
MeasDropNan ==
    /\ focus = "data"
    /\ m.exists
    /\ lastOp # "drop_nan"
    /\ LET r == MeasurementDropNan(m)
       IN  /\ m' = r.m
           /\ lastExc' = r.exc
           /\ warns' = r.warns
    /\ argOther' = <<m.time_data, m.size>>
    /\ lastOp' = "drop_nan"
    /\ ret' = <<>>
    /\ MeasCallFrame

\* measurement.trim_time(start, end, drop)
MeasTrimTime ==
    /\ focus = "data"
    /\ m.exists
    /\ lastOp = "PupilMeasurement"
    /\ \E start \in QueryTimes, end \in QueryTimes, drop \in BOOLEAN :
          LET r == TrimTime(m, start, end, drop)
          IN  /\ m' = r.m
              /\ lastExc' = r.exc
              /\ warns' = r.warns
              /\ argOther' = <<start, end, drop, m.time_data, m.size>>
    /\ lastOp' = "trim_time"
    /\ ret' = <<>>
    /\ MeasCallFrame

\* measurement.trim_size(min_size, max_size, drop)
MeasTrimSize ==
    /\ focus = "data"
    /\ m.exists
    /\ lastOp = "PupilMeasurement"
    /\ \E lo \in SizeLimits, hi \in SizeLimits, drop \in BOOLEAN :
          LET r == TrimSize(m, lo, hi, drop)
          IN  /\ m' = r.m
              /\ lastExc' = r.exc
              /\ warns' = r.warns
              /\ argOther' = <<lo, hi, drop, m.time_data, m.size>>
    /\ lastOp' = "trim_size"
    /\ ret' = <<>>
    /\ MeasCallFrame

\* measurement.rolling_filter(func, time_window)
MeasRollingFilter ==
    /\ focus = "data"
    /\ m.exists
    /\ lastOp = "PupilMeasurement"
    /\ \E func \in FilterFuncs, time_window \in 0..MaxT :
          LET r == RollingFilter(m, func, time_window)
          IN  /\ m' = r.m
              /\ lastExc' = r.exc
              /\ warns' = r.warns
              /\ argOther' = <<func, time_window>>
    /\ lastOp' = "rolling_filter"
    /\ ret' = <<>>
    /\ MeasCallFrame

\* remove_blinks() on the measurement
MeasRemoveBlinks ==
    /\ focus = "data"
    /\ m.exists
    /\ lastOp \in {"PupilMeasurement", "set_blinks"}
    /\ LET r == RemoveBlinks(m)
       IN  /\ m' = r.m
           /\ lastExc' = r.exc
           /\ warns' = r.warns
    /\ argOther' = <<m.time_data, m.size>>
    /\ lastOp' = "remove_blinks"
    /\ ret' = <<>>
    /\ MeasCallFrame

\* get_average_size(start_time, end_time) on the measurement
MeasGetAverageSize ==
    /\ focus = "data"
    /\ m.exists
    /\ lastOp = "PupilMeasurement"
    /\ \E start \in QueryTimes, end \in QueryTimes :
          LET r == GetAverageSize(m, start, end)
          IN  /\ ret' = r.val
              /\ lastExc' = r.exc
              /\ warns' = r.warns
              /\ argOther' = <<start, end>>
    /\ lastOp' = "get_average_size"
    /\ m' = m
    /\ MeasCallFrame

\* calculate_baseline(duration) on the measurement
MeasCalculateBaseline ==
    /\ focus = "data"
    /\ m.exists
    /\ lastOp \in SetupOps
    /\ \E duration \in Durations :
          LET r == CalculateBaseline(m, duration)
          IN  /\ ret' = r.val
              /\ lastExc' = r.exc
              /\ warns' = r.warns
              /\ argOther' = <<duration>>
    /\ lastOp' = "calculate_baseline"
    /\ m' = m
    /\ MeasCallFrame

\* peak_constriction() on the measurement
MeasPeakConstriction ==
    /\ focus = "data"
    /\ m.exists
    /\ lastOp \in SetupOps
    /\ LET r == PeakConstriction(m)
       IN  /\ ret' = r.val
           /\ lastExc' = r.exc
           /\ warns' = r.warns
           /\ m' = r.m
    /\ argOther' = <<>>
    /\ lastOp' = "peak_constriction"
    /\ MeasCallFrame

\* time_to_peak() on the measurement
MeasTimeToPeak ==
    /\ focus = "data"
    /\ m.exists
    /\ lastOp \in SetupOps
    /\ LET r == TimeToPeak(m)
       IN  /\ ret' = r.val
           /\ lastExc' = r.exc
           /\ warns' = r.warns
           /\ m' = r.m
    /\ argOther' = <<>>
    /\ lastOp' = "time_to_peak"
    /\ MeasCallFrame

\* stimulus intervals (start, end) of a series
StimIntervals == {ab \in TimeVals \X TimeVals : ab[1] <= ab[2]}

\* the stimulus lists a caller hands to PupilSeries: up to two stimuli, one
\* after the other
StimLists ==
    {<<>>} \cup {<<p>> : p \in StimIntervals}
    \cup {pq \in StimIntervals \X StimIntervals : pq[1][2] < pq[2][1]}

\* pre- and post-pulse durations a caller passes to split
PulseDurations == {-1, 0, 1}

\* PupilSeries(time, size, stimuli_list)
PupilSeriesConstruct ==
    /\ focus = "series"
    /\ lastOp = "init"
    /\ \E t \in TimeArrays, s \in SizeArrays, sl \in StimLists :
          LET r == PupilSeriesInit(t, s, sl)
          IN  /\ series' = r.series
              /\ lastExc' = r.exc
              /\ argTime' = t
              /\ argSize' = s
              /\ argOther' = sl
    /\ lastOp' = "PupilSeries"
    /\ warns' = <<>>
    /\ calls' = <<>>
    /\ lastOpt' = "notcalled"
    /\ ret' = <<>>
    /\ optArgs' = NoOptArgs
    /\ UNCHANGED <<kwargs, focus, ph, ph2, m, cf>>

\* series.split(prepulse_duration, postpulse_duration)
PupilSeriesSplit ==
    /\ focus = "series"
    /\ series.exists
    /\ lastOp = "PupilSeries"
    /\ \E pre \in PulseDurations, post \in PulseDurations :
          LET r == Split(series, pre, post)
          IN  /\ series' = r.series
              /\ ret' = r.val
              /\ lastExc' = r.exc
              /\ warns' = r.warns
              /\ argOther' = <<pre, post>>
    /\ lastOp' = "split"
    /\ calls' = <<>>
    /\ lastOpt' = "notcalled"
    /\ optArgs' = NoOptArgs
    /\ argTime' = <<>>
    /\ argSize' = <<>>
    /\ UNCHANGED <<kwargs, focus, ph, ph2, m, cf>>

\* a phase constructor called with the whole time grid, valid sizes and a
\* finite window
BaseFitConstructGrid ==
    /\ focus = "tune"
    /\ lastOp = "init"
    /\ \E kind \in Kinds, s \in [1..MaxT -> {1, 2}],
          st \in TimeVals, en \in TimeVals :
          LET t == [i \in 1..MaxT |-> i - 1]
              r == BaseFitInit(kind, t, s, st, en)
          IN  /\ ph' = r.ph
              /\ argTime' = t
              /\ argSize' = s
              /\ lastExc' = r.exc
              /\ warns' = r.warns
    /\ lastOp' = "BaseFit"
    /\ calls' = <<>>
    /\ lastOpt' = "notcalled"
    /\ ret' = <<>>
    /\ argOther' = <<>>
    /\ optArgs' = NoOptArgs
    /\ UNCHANGED <<series, kwargs, focus, ph2, m, cf>>

\* phase.set_start_time(start_time)
PhaseSetStartTime ==
    /\ focus = "tune"
    /\ ph.exists
    /\ lastOp = "BaseFit"
    /\ \E v \in TimeVals :
          /\ ph' = [ph EXCEPT !.start_time = v]
          /\ argOther' = <<v>>
    /\ lastOp' = "set_start_time"
    /\ lastExc' = "none"
    /\ warns' = <<>>
    /\ calls' = <<>>
    /\ lastOpt' = "notcalled"
    /\ ret' = <<>>
    /\ optArgs' = NoOptArgs
    /\ UNCHANGED <<series, kwargs, focus, ph2, m, cf, argTime, argSize>>

\* phase.set_end_time(end_time)
PhaseSetEndTime ==
    /\ focus = "tune"
    /\ ph.exists
    /\ lastOp = "BaseFit"
    /\ \E v \in TimeVals :
          /\ ph' = [ph EXCEPT !.end_time = v]
          /\ argOther' = <<v>>
    /\ lastOp' = "set_end_time"
    /\ lastExc' = "none"
    /\ warns' = <<>>
    /\ calls' = <<>>
    /\ lastOpt' = "notcalled"
    /\ ret' = <<>>
    /\ optArgs' = NoOptArgs
    /\ UNCHANGED <<series, kwargs, focus, ph2, m, cf, argTime, argSize>>

\* phase.fit(initial_guess, fit_options)
PhaseFitOptions ==
    /\ focus = "tune"
    /\ ph.exists
    /\ lastOp \in {"BaseFit", "_set_params"}
    /\ \E guess \in GuessArgs, kw \in KwargsArgs, r \in FitResults(ph) :
          /\ ph' = r.ph
          /\ lastExc' = r.exc
          /\ warns' = r.warns
          /\ lastOpt' = r.opt
          /\ kwargs' = KwargsAfter(ph, guess, kw)
          /\ optArgs' = IF r.opt = "notcalled" THEN r.args
                        ELSE [r.args EXCEPT !.nan_policy =
                                 NanPolicy(KwargsAfter(ph, guess, kw))]
          /\ argOther' = <<guess, kw>>
    /\ lastOp' = "fit_options"
    /\ calls' = <<>>
    /\ ret' = <<>>
    /\ UNCHANGED <<series, focus, ph2, m, cf, argTime, argSize>>

\* phase.optimize_phase_boundary_and_params(time, size, estimated_time,
\* time_bounds, estimated_fit_params, fit_param_bounds), with the arrays the
\* phase was built from
PhaseOptimize ==
    /\ focus = "tune"
    /\ ph.exists
    /\ lastOp = "BaseFit"
    /\ \E st \in TimeVals, en \in TimeVals,
          n_param_bounds \in {0, NParams(ph.kind)} :
          /\ lastExc' \in OptimizeOutcomes(ph, n_param_bounds)
          /\ argOther' = <<st, en, n_param_bounds>>
    /\ lastOp' = "optimize"
    /\ calls' = <<"minimize">>
    /\ warns' = <<>>
    /\ lastOpt' = "notcalled"
    /\ ret' = <<>>
    /\ optArgs' = NoOptArgs
    /\ UNCHANGED <<series, kwargs, focus, ph, ph2, m, cf, argTime, argSize>>

DataNext ==
    \/ PupilMeasurementConstruct
    \/ MeasSetTimeAndSize
    \/ MeasSetLightStimulus
    \/ MeasSetBlinks
    \/ MeasSetTimeOffset
    \/ MeasInterpolate
    \/ MeasDropNan
    \/ MeasTrimTime
    \/ MeasTrimSize
    \/ MeasRollingFilter
    \/ MeasRemoveBlinks
    \/ MeasGetAverageSize
    \/ MeasCalculateBaseline
    \/ MeasPeakConstriction
    \/ MeasTimeToPeak
    \/ PupilSeriesConstruct
    \/ PupilSeriesSplit
    \/ BaseFitConstructGrid
    \/ PhaseSetParams
    \/ PhaseSetStartTime
    \/ PhaseSetEndTime
    \/ PhaseFitOptions
    \/ PhaseOptimize

DataSpec == DataInit /\ [][DataNext]_vars

----------------------------------------------------------------------------
(* Properties *)

\* number of samples of a phase's window whose observed size is not NaN
ValidPoints(p) == Cardinality({i \in 1..Len(p.size) : ~IsNaN(p.size[i])})

PhaseFields == {"baseline_fit", "constrict_fit", "sustain_fit", "redilation_fit"}

\* C1: in every state of a PhaseModel (fresh, fitted, insufficient data,
\* failed optimizer) get_params() returns a vector as long as
\* get_param_names(); the unfit and the failed states hold all-NaN.
C1_ParamsVectorAlwaysPresent ==
    ph.exists =>
        /\ GetParamsExc(ph) = "none"
        /\ Len(ph.params) = Len(ParamNames(ph.kind))
        /\ (lastOp = "BaseFit" \/ (lastOp = "fit" /\ lastOpt = "RuntimeError"))
              => AllNaN(ph.params)

\* C2: fit() on a window with fewer than 3 valid (non-NaN) points returns
\* normally, leaves every parameter NaN and emits exactly one warning.
C2_TooFewPointsFit ==
    (lastOp = "fit" /\ ValidPoints(ph) < MinFitPoints) =>
        /\ lastExc = "none"
        /\ ph.has_params
        /\ AllNaN(ph.params)
        /\ Len(warns) = 1

\* C3: whatever exception the optimizer call ends with (RuntimeError,
\* ValueError, TypeError), fit() returns normally, all parameters are NaN
\* and a warning has been emitted.
C3_OptimizerFailureContained ==
    (lastOp = "fit" /\ lastOpt \in {"RuntimeError", "ValueError", "TypeError"}) =>
        /\ lastExc = "none"
        /\ ph.has_params
        /\ AllNaN(ph.params)
        /\ Len(warns) >= 1

\* C4: when a PupilFit is constructed and some phase ends with an
\* insufficient-data or optimizer-failure outcome, the constructor does not
\* raise and every later phase of the fit order is still fit.
C4_PhaseFailureContained ==
    (/\ lastOp = "PupilFit"
     /\ m.has_stim
     /\ \E f \in PhaseFields :
           Len(cf[f].time_data) < MinFitPoints \/ lastOpt # "ok") =>
        /\ lastExc = "none"
        /\ cf.stage = "fitted"
        /\ SubSeq(calls, Len(calls) - 3, Len(calls))
              = <<"baseline_fit", "constrict_fit", "sustain_fit", "redilation_fit">>
        /\ \A f \in PhaseFields : cf[f].has_params

\* C5: constructing a PupilFit from a series without a light stimulus raises
\* before anything else is done: no phase is constructed, no fit is run and
\* no copy of the series is taken.
C5_NoStimulusRejectedFirst ==
    (lastOp = "PupilFit" /\ ~m.has_stim) =>
        /\ lastExc = "ValueError"
        /\ calls = <<"get_light_stimulus">>
        /\ lastOpt = "notcalled"
        /\ cf = NoFit

C5_Witness ==
    /\ lastOp = "PupilFit"
    /\ ~m.has_stim
    /\ Len(m.time_data) = MaxT
    /\ lastExc # "none"

\* C6: for a PupilFit with stimulus [a, b] and every query time t: t < a is
\* answered by the baseline model, a <= t < b by the sustained model (which
\* overrides constriction), t >= b by the redilation model; a time in no
\* window yields NaN.
C6_PredictDispatch ==
    (lastOp = "PupilFit" /\ m.has_stim) =>
        /\ cf.stage = "fitted"
        /\ \A t \in QueryTimes :
              LET a == cf.stimulus[1]
                  b == cf.stimulus[2]
                  r == PupilFitPredict(cf, t)
              IN  /\ r.exc = "none"
                  /\ r.val = IF Gt(a, t) THEN PredictOne(cf.baseline_fit, t)
                             ELSE IF Ge(t, a) /\ Gt(b, t)
                                  THEN PredictOne(cf.sustain_fit, t)
                             ELSE IF Ge(t, b) THEN PredictOne(cf.redilation_fit, t)
                             ELSE NaN

\* C7: after a PupilFit is constructed every constriction and every
\* sustained parameter is NaN, predict yields NaN on [stimulus_start,
\* stimulus_end), and the baseline and redilation parameters are those
\* their fits left.
C7_ConstrictSustainNaN ==
    (lastOp = "PupilFit" /\ m.has_stim) =>
        /\ cf.stage = "fitted"
        /\ cf.constrict_fit.has_params /\ AllNaN(cf.constrict_fit.params)
        /\ cf.sustain_fit.has_params /\ AllNaN(cf.sustain_fit.params)
        /\ cf.baseline_fit.has_params
        /\ cf.redilation_fit.has_params
        /\ \A t \in QueryTimes :
              (Ge(t, cf.stimulus[1]) /\ Gt(cf.stimulus[2], t)) =>
                  IsNaN(PupilFitPredict(cf, t).val)

\* C8: a PupilFit and its phases hold private copies of the series' arrays:
\* after construction an in-place write by the caller to the series' time
\* array leaves the PupilFit's get_time() and every phase's data as they
\* were at construction.
C8_PrivateCopies ==
    (lastOp \in {"PupilFit", "mutate_time"} /\ m.has_stim) =>
        /\ cf.stage = "fitted"
        /\ ~cf.time_shared
        /\ cf.time_data = cf.pupil_measurement.time_data
        /\ \A f \in PhaseFields :
              cf[f].time_data =
                  Masked(cf.pupil_measurement.time_data,
                         cf.pupil_measurement.time_data,
                         cf[f].start_time, cf[f].end_time)

\* C9: time and size arrays of different lengths are always rejected: a
\* phase constructor or PupilMeasurement(...) raises and yields no object,
\* set_time_and_size raises and leaves the stored arrays unchanged.
C9_LengthMismatchRejected ==
    [][(/\ Len(argTime') # Len(argSize')
        /\ lastOp' \in {"BaseFit", "PupilMeasurement", "set_time_and_size"}) =>
          /\ lastExc' # "none"
          /\ (lastOp' = "BaseFit" => ph' = NoPhase)
          /\ (lastOp' = "PupilMeasurement" =>
                 lastExc' = "ValueError" /\ m' = NoMeas)
          /\ (lastOp' = "set_time_and_size" =>
                 lastExc' = "ValueError" /\ m' = m)]_vars

C9_Witness ==
    /\ lastOp = "set_time_and_size"
    /\ Len(argTime) # Len(argSize)
    /\ lastExc = "ValueError"
    /\ Len(m.time_data) > 0

\* C10: a phase constructor with window (start_time, end_time) stores
\* exactly the input pairs with start_time <= time <= end_time, in their
\* original order, each time still paired with its own size.
C10_WindowMask ==
    (lastOp = "BaseFit" /\ lastExc = "none") =>
        LET idx == {i \in 1..Len(argTime) :
                       argTime[i] >= ph.start_time /\ argTime[i] <= ph.end_time}
            rank(i) == Cardinality({j \in idx : j <= i})
        IN  /\ Len(ph.time_data) = Cardinality(idx)
            /\ Len(ph.size) = Cardinality(idx)
            /\ \A i \in idx :
                  /\ ph.time_data[rank(i)] = argTime[i]
                  /\ ph.size[rank(i)] = argSize[i]

C10_Witness ==
    /\ lastOp = "BaseFit"
    /\ lastExc = "none"
    /\ Len(ph.time_data) = 2
    /\ Len(argTime) = 3
    /\ ph.time_data[2] = ph.end_time
    /\ ph.size = <<NaN, 2>>

\* C11: a phase's window is half-open with the end exclusive: for a finite
\* end_time no stored sample has time = end_time (so abutting phases of a
\* PupilFit share no sample).
C11_EndExclusiveWindow ==
    (lastOp = "BaseFit" /\ lastExc = "none" /\ IsFinite(ph.end_time)) =>
        \A i \in 1..Len(ph.time_data) : ph.time_data[i] # ph.end_time

\* C12: a phase's time offset equals its start_time, and predict() and
\* fit() evaluate the formula at x = time - start_time, for query times and
\* for training times alike.
C12_SecondsSincePhaseStart ==
    /\ ph.exists => ph.time_offset = ph.start_time
    /\ (lastOp = "predict" /\ lastExc = "none" /\ IsFinite(ph.start_time)) =>
          \A i \in 1..Len(argOther) :
              IsFinite(argOther[i]) =>
                  ret[i] = ModelFunction(ph.kind, Sub(argOther[i], ph.start_time),
                                         ph.params)
    /\ (lastOp = "fit" /\ lastOpt # "notcalled") =>
          optArgs.xdata =
              [i \in 1..Len(ph.time_data) |-> Sub(ph.time_data[i], ph.start_time)]

\* C13: for a redilation model with s > 0, k < 0, predict at +infinity
\* returns the plateau p and predict at -infinity returns -infinity; the
\* formula evaluated is y = -s*exp(k*x) + p.
C13_RedilationLimits ==
    (/\ lastOp = "predict"
     /\ lastExc = "none"
     /\ ph.kind = "redilation"
     /\ IsFinite(ph.start_time)
     /\ \A i \in 1..3 : IsFinite(ph.params[i])
     /\ ph.params[1] > 0
     /\ ph.params[2] < 0) =>
        \A i \in 1..Len(argOther) :
            LET x == Add(argOther[i], ph.time_offset)
            IN  /\ argOther[i] = PosInf => ret[i] = ph.params[3]
                /\ argOther[i] = NegInf => ret[i] = NegInf
                /\ ret[i] = Add(Mul(Neg(ph.params[1]), Exp(Mul(ph.params[2], x))),
                                ph.params[3])

\* C14: for a baseline window of at least 3 samples whose sizes all equal
\* c, fit() yields the parameter vector (c,) exactly, and predict() returns
\* the fitted constant for every query time.
C14_ConstantBaselineFit ==
    /\ (/\ lastOp = "fit"
        /\ ph.kind = "baseline"
        /\ Len(ph.size) >= MinFitPoints
        /\ \E c \in {1, 2} : \A i \in 1..Len(ph.size) : ph.size[i] = c) =>
          /\ lastExc = "none"
          /\ ph.has_params
          /\ ph.params = <<ph.size[1]>>
    /\ (lastOp = "predict" /\ ph.kind = "baseline" /\ lastExc = "none") =>
          \A i \in 1..Len(argOther) : ret[i] = ph.params[1]

\* C15: two phase objects of the same class constructed from the same time,
\* size and window and fit with the same initial guess end with identical
\* parameter vectors.
C15_FitDeterministic ==
    lastOp = "fit_twice" =>
        /\ lastExc = "none"
        /\ ph.has_params
        /\ ph2.has_params
        /\ ph.params = ph2.params

\* the parameter vectors a fit() of phase p ends with when curve_fit succeeds
RefitParams(p) == {r.ph.params : r \in {x \in FitResults(p) : x.opt = "ok"}}

\* C16: re-running fit() on a fitted phase is idempotent: a second fit()
\* with the same initial guess leaves the vector the first fit left,
\* whatever parameters the phase held before the second call.
C16_RefitIdempotent ==
    (lastOp = "fit" /\ lastExc = "none" /\ lastOpt = "ok") =>
        \A v \in FiniteVecs(ph.kind) \cup {NaNVec(ph.kind)} :
            RefitParams([ph EXCEPT !.params = v]) = {ph.params}

\* C17: the targets fit() hands to the optimizer are the observed sizes
\* masked to the window, NaN observations are omitted (nan_policy "omit"),
\* and the 3-point minimum is counted over the non-NaN observations.
C17_TargetsAreObservations ==
    /\ (lastOp = "fit" /\ lastOpt # "notcalled") =>
          /\ optArgs.ydata = ph.size
          /\ optArgs.nan_policy = "omit"
    /\ (lastOp = "fit" /\ lastExc = "none") =>
          (lastOpt = "notcalled" <=> ValidPoints(ph) < MinFitPoints)

\* C18: goodness_of_fit with a method other than "MAE" raises ValueError;
\* with "MAE" it returns the mean of |observed size - predicted size| over
\* the window's samples whose observed size is not NaN; either way the
\* phase is left unchanged.
C18_GoodnessOfFit ==
    [][lastOp' = "goodness_of_fit" =>
         /\ ph' = ph
         /\ argOther'[1] # "MAE" => lastExc' = "ValueError"
         /\ argOther'[1] = "MAE" =>
               LET valid == {i \in 1..Len(ph.size) : ~IsNaN(ph.size[i])}
                   term(i) == Abs(Sub(ph.size[i], PredictOne(ph, ph.time_data[i])))
                   terms == [i \in 1..Len(ph.size) |->
                                IF i \in valid THEN term(i) ELSE NaN]
               IN  /\ lastExc' = "none"
                   /\ ret' = IF valid = {} \/ \E i \in valid : IsNaN(term(i))
                             THEN <<NaN>>
                             ELSE <<SumSeq(DropNaN(terms)), Cardinality(valid)>>]_vars

\* C19: on a constructed PupilFit, get_param(phase_name, param_name)
\* returns the stored value when both keys exist; otherwise it raises a
\* ValueError naming the available phases (unknown phase) or the available
\* parameters (unknown parameter).
C19_GetParam ==
    (lastOp = "PupilFit" /\ m.has_stim) =>
        /\ cf.stage = "fitted"
        /\ \A pn \in PhaseNameArgs, qn \in ParamNameArgs :
              LET r == GetParam(cf, pn, qn)
                  known == \E i \in 1..4 : PhaseKeys[i] = pn
                  names == ParamNames(PhaseOfKey(cf, pn).kind)
              IN  IF ~known
                  THEN r.exc = "ValueError" /\ r.named = PhaseKeys
                  ELSE IF \A i \in 1..Len(names) : names[i] # qn
                  THEN r.exc = "ValueError" /\ r.named = names
                  ELSE /\ r.exc = "none"
                       /\ \E i \in 1..Len(names) :
                             names[i] = qn /\ r.val = PhaseOfKey(cf, pn).params[i]

\* what C20 says stays fixed: time array, stimulus interval, phase windows
\* and phase parameters
Frame(c) ==
    [time_data |-> c.time_data,
     stimulus |-> c.stimulus,
     windows |-> [i \in 1..4 |-> <<PhaseOfKey(c, PhaseKeys[i]).start_time,
                                  PhaseOfKey(c, PhaseKeys[i]).end_time>>],
     params |-> [i \in 1..4 |-> PhaseOfKey(c, PhaseKeys[i]).params]]

\* C20: a constructed PupilFit is immutable: no operation callable on it,
\* the inherited set_time_offset and drop_nan included, changes its time
\* array, its stimulus interval, a phase window or a phase parameter.
C20_FittedImmutable ==
    (lastOp = "PupilFit" /\ m.has_stim) =>
        /\ cf.stage = "fitted"
        /\ \A offset \in TimeVals :
              Frame(PupilFitSetTimeOffset(cf, offset).cf) = Frame(cf)
        /\ Frame(PupilFitDropNan(cf).cf) = Frame(cf)

\* C27: trim_time(start, end, drop) keeps exactly the samples with
\* start <= time <= end.  With drop=False the time array is unchanged, every
\* size outside the interval becomes NaN and the sizes inside keep their
\* values; with drop=True the samples outside the interval and the samples
\* whose size is NaN are removed, order preserved.  An interval that holds
\* no sample leaves all-NaN sizes (drop=False) or an empty series (drop=True).
C27_TrimTime ==
    lastOp = "trim_time" =>
        LET start == argOther[1]
            end == argOther[2]
            drop == argOther[3]
            t0 == argOther[4]
            s0 == argOther[5]
            inside(i) == /\ start # NaN /\ end # NaN
                         /\ start <= t0[i] /\ t0[i] <= end
            kept == {i \in 1..Len(t0) : inside(i) /\ s0[i] # NaN}
            nth(k) == CHOOSE i \in kept :
                          Cardinality({j \in kept : j <= i}) = k
        IN  /\ lastExc = "none"
            /\ Len(m.time_data) = Len(m.size)
            /\ IF ~drop
               THEN /\ m.time_data = t0
                    /\ \A i \in 1..Len(t0) :
                          m.size[i] = IF inside(i) THEN s0[i] ELSE NaN
               ELSE /\ Len(m.size) = Cardinality(kept)
                    /\ \A k \in 1..Cardinality(kept) :
                          /\ m.time_data[k] = t0[nth(k)]
                          /\ m.size[k] = s0[nth(k)]

\* a trim with drop=True that removed a sample outside the interval and a
\* NaN sample inside it, and kept one sample
C27_Witness ==
    /\ lastOp = "trim_time"
    /\ argOther[3] = TRUE
    /\ Len(argOther[4]) = 3
    /\ Len(m.size) = 1
    /\ \E i \in 1..3 : /\ argOther[5][i] = NaN
                       /\ argOther[1] <= argOther[4][i]
                       /\ argOther[4][i] <= argOther[2]
    /\ \E i \in 1..3 : argOther[4][i] > argOther[2] /\ argOther[5][i] # NaN

C29_StimulusMatchesWindows ==
    (lastOp = "PupilFit" /\ m.has_stim) =>
        /\ cf.stage = "fitted"
        /\ \A c \in {cf}
                 \cup {SourceSetTimeOffset(cf, m, o) : o \in Offsets}
                 \cup {SourceSetLightStimulus(cf, m, a, b) :
                          a \in TimeVals, b \in TimeVals}
                 \cup {PupilFitSetTimeOffset(cf, o).cf : o \in Offsets} :
              c.stimulus = <<c.baseline_fit.end_time,
                             c.redilation_fit.start_time>>

\* C25: PupilSeries.split(pre, post) returns one measurement per stimulus,
\* in stimulus order; the measurement for stimulus (s, e) holds exactly the
\* non-NaN samples with s - pre <= time <= e + post, every time shifted by
\* -e, and carries the stimulus interval (s - e, 0); the series' own time,
\* size and stimuli are unchanged.
C25_Split ==
    [][lastOp' = "split" =>
        LET pre == argOther'[1]
            post == argOther'[2]
            t0 == series.time_data
            s0 == series.size
        IN  /\ series' = series
            /\ lastExc' = "none"
            /\ Len(ret') = Len(series.stimuli)
            /\ \A k \in 1..Len(series.stimuli) :
                  LET s == series.stimuli[k][1]
                      e == series.stimuli[k][2]
                      kept == {i \in 1..Len(t0) : /\ s - pre <= t0[i]
                                                  /\ t0[i] <= e + post
                                                  /\ s0[i] # NaN}
                      nth(j) == CHOOSE i \in kept :
                                    Cardinality({x \in kept : x <= i}) = j
                  IN  /\ Len(ret'[k].time_data) = Cardinality(kept)
                      /\ Len(ret'[k].size) = Cardinality(kept)
                      /\ \A j \in 1..Cardinality(kept) :
                            /\ ret'[k].time_data[j] = t0[nth(j)] - e
                            /\ ret'[k].size[j] = s0[nth(j)]
                      /\ ret'[k].has_stim
                      /\ ret'[k].stim = <<s - e, 0>>]_vars

\* C21: a phase's window is fixed at construction: in every state reachable
\* through public operations get_start_time() and get_end_time() return the
\* constructor values, and the stored masked data are exactly the source
\* samples inside that window.
C21_WindowFixed ==
    [][(focus = "tune" /\ ph.exists /\ ph'.exists) =>
        LET kept == {i \in 1..Len(argTime') :
                        /\ ph'.start_time <= argTime'[i]
                        /\ argTime'[i] <= ph'.end_time}
            nth(j) == CHOOSE i \in kept :
                          Cardinality({x \in kept : x <= i}) = j
        IN  /\ ph'.start_time = ph.start_time
            /\ ph'.end_time = ph.end_time
            /\ Len(ph'.time_data) = Cardinality(kept)
            /\ Len(ph'.size) = Cardinality(kept)
            /\ \A j \in 1..Cardinality(kept) :
                  /\ ph'.time_data[j] = argTime'[nth(j)]
                  /\ ph'.size[j] = argSize'[nth(j)]]_vars

\* C26: optimize_phase_boundary_and_params returns a search result instead
\* of raising, and the receiver keeps its window, data and parameters.
C26_OptimizeReturns ==
    [][lastOp' = "optimize" => (lastExc' = "none" /\ ph' = ph)]_vars

\* C30: fit(initial_guess, fit_options) leaves the caller's fit_options
\* mapping unchanged.
C30_FitOptionsUnchanged ==
    lastOp = "fit_options" => kwargs = argOther[2]

=============================================================================
